---- MODULE Spec2Model ----
(***************************************************************************)
(* gltf_unlit_generator (src/main.rs): for every material of a glTF        *)
(* document, bake base color, occlusion and emissive maps into one unlit   *)
(* RGBA texture, save it, and print the JSON array of written paths.       *)
(*                                                                         *)
(* Pixels are 8-bit, factors are IEEE-754 binary32 (f32).  The f32         *)
(* arithmetic of the source is modelled bit-exactly: a finite f32 is       *)
(* m * 2^e with a 24-bit significand m (2^23 <= m < 2^24, or m = 0), and   *)
(* every operation rounds to nearest, ties to even, as the hardware does.  *)
(***************************************************************************)
EXTENDS Integers, Sequences, FiniteSets, TLC

(***************************************************************************)
(* f32 values and the operations the source applies to them.               *)
(***************************************************************************)
F32(neg, m, e) == [nan |-> FALSE, neg |-> neg, m |-> m, e |-> e]

NaN == [nan |-> TRUE, neg |-> FALSE, m |-> 0, e |-> 0]

Zero == F32(FALSE, 0, 0)

\* Scale a positive integer below 2^24 up to a 24-bit significand (exact).
RECURSIVE Normalize(_, _)
Normalize(m, e) ==
    IF m = 0 THEN Zero
    ELSE IF m >= 8388608 THEN F32(FALSE, m, e)
    ELSE Normalize(2 * m, e - 1)

\* `x as f32` for a u8 x: exact.
U8AsF32(x) == Normalize(x, 0)

\* Round q + rem/unit (0 <= rem < unit) to nearest, ties to even, then
\* renormalise when the significand carries out of 24 bits.
RoundF32(neg, q, rem, unit, e) ==
    LET up == (2 * rem > unit) \/ (2 * rem = unit /\ q % 2 = 1)
        r == IF up THEN q + 1 ELSE q
    IN  IF r = 16777216 THEN F32(neg, 8388608, e + 1) ELSE F32(neg, r, e)

\* f32 * f32.  The 48-bit product of the significands is held in 12-bit
\* limbs so that no intermediate value needs more than 31 bits.
F32Mul(x, y) ==
    IF x.nan \/ y.nan THEN NaN
    ELSE IF x.m = 0 \/ y.m = 0 THEN F32(x.neg # y.neg, 0, 0)
    ELSE
      LET ah == x.m \div 4096
          al == x.m % 4096
          bh == y.m \div 4096
          bl == y.m % 4096
          t0 == al * bl
          t1 == ah * bl + al * bh + (t0 \div 4096)
          c0 == t0 % 4096
          c1 == t1 % 4096
          hi == ah * bh + (t1 \div 4096)
          neg == x.neg # y.neg
      IN  IF hi >= 8388608
          THEN RoundF32(neg, hi, c1 * 4096 + c0, 16777216, x.e + y.e + 24)
          ELSE RoundF32(neg, 2 * hi + (c1 \div 2048),
                        (c1 % 2048) * 4096 + c0, 8388608, x.e + y.e + 23)

\* f32 / 255.0 for a non-negative x (long division of the significand).
F32Div255(x) ==
    IF x.nan THEN NaN
    ELSE IF x.m = 0 THEN x
    ELSE
      LET k == IF x.m < 16711680 THEN 8 ELSE 7
          q0 == x.m \div 255
          r0 == (x.m % 255) * (2 ^ k)
      IN  RoundF32(x.neg, q0 * (2 ^ k) + (r0 \div 255), r0 % 255, 255, x.e - k)

\* x < 0.0 and x > 1.0 as f32 comparisons; both are false of a NaN.
F32LtZero(x) == ~x.nan /\ x.neg /\ x.m > 0

F32GtOne(x) == ~x.nan /\ ~x.neg /\ x.m > 0
               /\ (x.e > -23 \/ (x.e = -23 /\ x.m > 8388608))

\* The integer part of a finite x >= 0 that is below 2^31.
Trunc(x) ==
    IF x.m = 0 \/ x.e <= -24 THEN 0
    ELSE IF x.e < 0 THEN x.m \div (2 ^ (0 - x.e))
    ELSE x.m * (2 ^ x.e)

\* `x as u8`: truncation toward zero when the value fits a u8.  The cast of
\* a NaN or of an out-of-range value is undefined in the toolchain this
\* crate was written for (and saturating in later ones): any byte.
AsU8Outcomes(x) ==
    IF x.nan THEN 0 .. 255
    ELSE IF x.m = 0 THEN {0}
    ELSE IF x.neg THEN (IF x.e <= -24 THEN {0} ELSE 0 .. 255)
    ELSE IF x.e >= -15 THEN 0 .. 255
    ELSE {Trunc(x)}

\* `x as u8` where the value is known to fit (0 <= x < 256).
AsU8(x) == CASE ~x.nan /\ (x.m = 0 \/ (~x.neg /\ x.e < -15)) -> Trunc(x)

\* u8::wrapping_add: the sum modulo 256.
wrapping_add(a, b) == (a + b) % 256

\* u8::saturating_add
saturating_add(a, b) == IF a + b > 255 THEN 255 ELSE a + b

(***************************************************************************)
(* Option, Result, rasters and the glTF material view.                     *)
(***************************************************************************)
None == <<>>

Some(v) == <<v>>

Ok(v) == [ok |-> TRUE, v |-> v]

Err(e) == [ok |-> FALSE, err |-> e]

\* A formatted message: the format string and its arguments.
Msg(text, args) == [text |-> text, args |-> args]

\* A decoded image: w * h pixels in row-major order, each <<R, G, B, A>>.
Image(w, h, px) == [w |-> w, h |-> h, px |-> px]

dimensions(img) == <<img.w, img.h>>

\* DynamicImage::to_rgba / to_rgb of a decoded RGBA raster.
to_rgba(img) == img

to_rgb(img) == [img EXCEPT !.px = [i \in 1 .. Len(img.px) |->
                                     <<img.px[i][1], img.px[i][2], img.px[i][3]>>]]

\* gltf::image::Data of a texture's source: an external file, with what
\* image::open makes of it, or a buffer view.
UriData(opened) == [data |-> "Uri", open |-> opened]

ViewData == [data |-> "View"]

\* A loader that would stand a blank 1 x 1 image in for one it cannot load.
load_or_blank(texture) ==
    IF texture.data = "Uri" /\ texture.open.ok
    THEN [img |-> Some(texture.open.v), stderr |-> <<>>]
    ELSE [img |-> Some(Image(1, 1, <<<<0, 0, 0, 0>>>>)),
          stderr |-> <<Msg("Format error: {}", <<"image replaced">>)>>]

\* fn load_if_exists: the image, or None with the error written to stderr.
load_if_exists(texture) ==
    LET load_result ==
          IF texture.data = "Uri" THEN texture.open
          ELSE Err(Msg("Format error: {}", <<"Images in data views not supported.">>))
    IN  IF load_result.ok
        THEN [img |-> Some(load_result.v), stderr |-> <<>>]
        ELSE [img |-> None, stderr |-> <<load_result.err>>]

\* Option<Info>::and_then(|info| load_if_exists(dir, &info.texture()))
LoadOption(info) ==
    IF info = None THEN [img |-> None, stderr |-> <<>>]
    ELSE load_if_exists(info[1].texture)

\* fn validate_dimensions, from the state of its loop before dimension i.
RECURSIVE ValidateFrom(_, _, _)
ValidateFrom(dims, i, candidate) ==
    IF i > Len(dims)
    THEN IF candidate = None THEN Err(Msg("No input maps were provided.", <<>>))
         ELSE Ok(candidate[1])
    ELSE IF candidate # None /\ candidate # Some(dims[i])
         THEN Err(Msg("Input map has inconsistent dimensions: {:?}", <<dims[i]>>))
         ELSE ValidateFrom(dims, i + 1, Some(dims[i]))

\* A validation that would take the first dimensions without comparing.
validate_first_only(dims) ==
    IF dims = <<>> THEN Err(Msg("No input maps were provided.", <<>>))
    ELSE Ok(dims[1])

\* A validation that would fall back to 1 x 1 when there are no dimensions.
validate_or_unit(dims) ==
    IF dims = <<>> THEN Ok(<<1, 1>>) ELSE ValidateFrom(dims, 1, None)

validate_dimensions(dims) == ValidateFrom(dims, 1, None)

\* Iterator::zip stops at the shorter of the two rasters.
ZipLen(a, b) == IF Len(a) < Len(b) THEN Len(a) ELSE Len(b)

\* An occlusion step that would normalise the occlusion byte first:
\* pixel * ((occ / 255) * strength).
apply_occlusion_normalized(img, occlusion_map, strength) ==
    LET n == ZipLen(img.px, occlusion_map.px)
        shade(pixel, occ) ==
          LET occlusion_factor == F32Mul(F32Div255(U8AsF32(occ[1])), strength)
          IN  <<AsU8(F32Mul(U8AsF32(pixel[1]), occlusion_factor)),
                AsU8(F32Mul(U8AsF32(pixel[2]), occlusion_factor)),
                AsU8(F32Mul(U8AsF32(pixel[3]), occlusion_factor)),
                pixel[4]>>
    IN  [img EXCEPT !.px = [i \in 1 .. Len(img.px) |->
            IF i <= n THEN shade(img.px[i], occlusion_map.px[i]) ELSE img.px[i]]]

\* fn apply_occlusion
apply_occlusion(img, occlusion_map, strength) ==
    LET multiplier == F32Div255(strength)
        n == ZipLen(img.px, occlusion_map.px)
        shade(pixel, occ) ==
          LET occlusion_factor == F32Mul(U8AsF32(occ[1]), multiplier)
          IN  <<AsU8(F32Mul(U8AsF32(pixel[1]), occlusion_factor)),
                AsU8(F32Mul(U8AsF32(pixel[2]), occlusion_factor)),
                AsU8(F32Mul(U8AsF32(pixel[3]), occlusion_factor)),
                pixel[4]>>
    IN  [img EXCEPT !.px = [i \in 1 .. Len(img.px) |->
            IF i <= n THEN shade(img.px[i], occlusion_map.px[i]) ELSE img.px[i]]]

\* An emissive step that would add with wrap-around.
apply_emissive_wrapping(img, emissive_map, color) ==
    LET n == ZipLen(img.px, emissive_map.px)
        glow(pixel, em) ==
          <<wrapping_add(pixel[1], AsU8(F32Mul(U8AsF32(em[1]), color[1]))),
            wrapping_add(pixel[2], AsU8(F32Mul(U8AsF32(em[2]), color[2]))),
            wrapping_add(pixel[3], AsU8(F32Mul(U8AsF32(em[3]), color[3]))),
            pixel[4]>>
    IN  [img EXCEPT !.px = [i \in 1 .. Len(img.px) |->
            IF i <= n THEN glow(img.px[i], emissive_map.px[i]) ELSE img.px[i]]]

\* fn apply_emissive
apply_emissive(img, emissive_map, color) ==
    LET n == ZipLen(img.px, emissive_map.px)
        glow(pixel, em) ==
          LET emissive_r == AsU8(F32Mul(U8AsF32(em[1]), color[1]))
              emissive_g == AsU8(F32Mul(U8AsF32(em[2]), color[2]))
              emissive_b == AsU8(F32Mul(U8AsF32(em[3]), color[3]))
          IN  <<saturating_add(pixel[1], emissive_r),
                saturating_add(pixel[2], emissive_g),
                saturating_add(pixel[3], emissive_b),
                pixel[4]>>
    IN  [img EXCEPT !.px = [i \in 1 .. Len(img.px) |->
            IF i <= n THEN glow(img.px[i], emissive_map.px[i]) ELSE img.px[i]]]

\* fn generate_monocolor
generate_monocolor(w, h, color_factor) ==
    Image(w, h, [i \in 1 .. w * h |->
        <<AsU8(F32Mul(U8AsF32(255), color_factor[1])),
          AsU8(F32Mul(U8AsF32(255), color_factor[2])),
          AsU8(F32Mul(U8AsF32(255), color_factor[3])),
          AsU8(F32Mul(U8AsF32(255), color_factor[4]))>>])

\* The closure of generate_unlit that turns the base color map into the
\* base layer: factor multiply, then the saturating lighten.
tint_base_map(base_map, base_color_factor, lighten) ==
    [base_map EXCEPT !.px = [i \in 1 .. Len(base_map.px) |->
        LET pixel == base_map.px[i]
        IN  <<saturating_add(AsU8(F32Mul(U8AsF32(pixel[1]), base_color_factor[1])), lighten),
              saturating_add(AsU8(F32Mul(U8AsF32(pixel[2]), base_color_factor[2])), lighten),
              saturating_add(AsU8(F32Mul(U8AsF32(pixel[3]), base_color_factor[3])), lighten),
              AsU8(F32Mul(U8AsF32(pixel[4]), base_color_factor[4]))>>]]

\* A compositor that would add the emissive map before the occlusion multiply.
composite_emissive_first(mat, base_map, occlusion_map, emissive_map, w, h, lighten) ==
    LET base_layer ==
          IF base_map = None
          THEN generate_monocolor(w, h, mat.base_color_factor)
          ELSE tint_base_map(base_map[1], mat.base_color_factor, lighten)
        lit ==
          IF emissive_map # None
          THEN apply_emissive(base_layer, emissive_map[1], mat.emissive_factor)
          ELSE base_layer
    IN  IF occlusion_map # None
        THEN apply_occlusion(lit, occlusion_map[1],
                             mat.occlusion_texture[1].strength)
        ELSE lit

\* generate_unlit from the three loaded maps on, given the byte the cast
\* `(lighten_factor * 255.0) as u8` produced.
composite(mat, base_map, occlusion_map, emissive_map, w, h, lighten) ==
    LET base_layer ==
          IF base_map = None
          THEN generate_monocolor(w, h, mat.base_color_factor)
          ELSE tint_base_map(base_map[1], mat.base_color_factor, lighten)
        occluded ==
          IF occlusion_map # None
          THEN apply_occlusion(base_layer, occlusion_map[1],
                               mat.occlusion_texture[1].strength)
          ELSE base_layer
    IN  IF emissive_map # None
        THEN apply_emissive(occluded, emissive_map[1], mat.emissive_factor)
        ELSE occluded

\* `Option<T>::map(f)` for the two conversions generate_unlit applies.
MapRgba(o) == IF o = None THEN None ELSE Some(to_rgba(o[1]))

MapRgb(o) == IF o = None THEN None ELSE Some(to_rgb(o[1]))

DimensionsOf(maps) ==
    LET RECURSIVE Collect(_)
        Collect(i) ==
          IF i > Len(maps) THEN <<>>
          ELSE (IF maps[i] = None THEN <<>> ELSE <<dimensions(maps[i][1])>>)
               \o Collect(i + 1)
    IN  Collect(1)

\* The bytes `(lighten_factor * 255.0) as u8` can yield.
LightenCast(lighten_factor) == AsU8Outcomes(F32Mul(lighten_factor, U8AsF32(255)))

\* generate_unlit up to the `?` on validate_dimensions: the three maps, the
\* warnings of the loads, and the Result of the validation.
load_maps(mat) ==
    LET base == LoadOption(mat.base_color_texture)
        occlusion == LoadOption(mat.occlusion_texture)
        emissive == LoadOption(mat.emissive_texture)
        base_map == MapRgba(base.img)
        occlusion_map == MapRgb(occlusion.img)
        emissive_map == MapRgb(emissive.img)
    IN  [base_map |-> base_map,
         occlusion_map |-> occlusion_map,
         emissive_map |-> emissive_map,
         stderr |-> base.stderr \o occlusion.stderr \o emissive.stderr,
         valid |-> validate_dimensions(
                     DimensionsOf(<<base_map, occlusion_map, emissive_map>>))]

\* fn generate_unlit: the Result it returns and what it wrote to stderr,
\* given the byte the lighten cast produced.
generate_unlit(mat, lighten) ==
    LET m == load_maps(mat)
    IN  IF ~m.valid.ok
        THEN [result |-> Err(m.valid.err), stderr |-> m.stderr]
        ELSE [result |-> Ok(composite(mat, m.base_map, m.occlusion_map,
                                      m.emissive_map, m.valid.v[1], m.valid.v[2],
                                      lighten)),
              stderr |-> m.stderr]

\* Whether generate_unlit returns Ok, for some byte the lighten cast yields.
unlit_generated(mat, lighten_factor) ==
    /\ load_maps(mat).valid.ok
    /\ \E lighten \in LightenCast(lighten_factor) :
         generate_unlit(mat, lighten).result.ok

\* A naming that would keep jpg for every mode but Blend.
output_filename_by_blend(mat) ==
    LET extension == IF mat.alpha_mode = "Blend" THEN "png" ELSE "jpg"
    IN  IF mat.name # None
        THEN mat.name[1] \o "_unlit." \o extension
        ELSE "unlit_" \o ToString(mat.index) \o "." \o extension

\* fn output_filename
output_filename(mat) ==
    LET extension == IF mat.alpha_mode = "Opaque" THEN "jpg" ELSE "png"
    IN  IF mat.name # None
        THEN mat.name[1] \o "_unlit." \o extension
        ELSE "unlit_" \o ToString(mat.index) \o "." \o extension

\* Path::join of a relative file name: an empty directory adds no separator.
Join(dir, filename) == IF dir = "" THEN filename ELSE dir \o "/" \o filename

(***************************************************************************)
(* Inputs of the compositor: f32 factors as serde decodes them, rasters,   *)
(* and materials built from them.                                          *)
(***************************************************************************)
F1_0 == F32(FALSE, 8388608, -23)

F0_5 == F32(FALSE, 8388608, -24)

F0_25 == F32(FALSE, 8388608, -25)

F0_75 == F32(FALSE, 12582912, -24)

\* 0.8 and 0.2 are not binary fractions: these are the nearest f32 values.
F0_8 == F32(FALSE, 13421773, -24)

F0_2 == F32(FALSE, 13421773, -26)

\* Number of pixels of a raster handed to the compositor (w = the bound, h = 1).
RasterLen == 2

\* Number of sample bytes that are multiples of 85 (255 = 3 * 85).
SampleCount == 3

Bytes == 0 .. 255

ByteSamples == {0, 25} \cup {(85 * k) % 256 : k \in 1 .. SampleCount}

\* A pixel whose four channels differ and each range over all bytes with p.
Pixel(p) == <<p, (3 * p + 85) % 256, 255 - p, (7 * p + 11) % 256>>

\* A raster whose pixels differ from one index to the next.
Raster(p) == Image(RasterLen, 1,
                   [i \in 1 .. RasterLen |-> Pixel((p + 97 * (i - 1)) % 256)])

DecodeError == Msg("Format error: {}", <<"unreadable image file">>)

\* A texture reference as a material holds it: absent, into a buffer view,
\* to a file that does not decode, or to a file that decodes to a raster.
BrokenTextures == {ViewData, UriData(Err(DecodeError))}

Textures(bytes) == BrokenTextures \cup {UriData(Ok(Raster(p))) : p \in bytes}

\* Factor settings of a material and of the run (all within [0, 1], the
\* range glTF allows them): base color factor, occlusion strength, emissive
\* factor, lighten factor.
Profile(bcf, strength, ef, lf) ==
    [base_color_factor |-> bcf, strength |-> strength,
     emissive_factor |-> ef, lighten_factor |-> lf]

Profiles ==
    { Profile(<<F1_0, F1_0, F1_0, F1_0>>, F1_0, <<F1_0, F1_0, F1_0>>, Zero),
      Profile(<<F0_5, F0_5, F0_5, F1_0>>, F1_0, <<F0_5, F0_25, Zero>>, Zero),
      Profile(<<F1_0, F0_2, F0_75, F0_5>>, F0_8, <<F0_8, F1_0, F0_2>>, F0_5),
      Profile(<<F0_8, F1_0, Zero, F0_8>>, F0_75, <<F0_75, F0_2, F1_0>>, F0_2),
      Profile(<<F0_2, F0_5, F1_0, F1_0>>, F0_2, <<F1_0, F0_5, F0_8>>, F1_0),
      Profile(<<F1_0, F1_0, F1_0, F1_0>>, Zero, <<Zero, Zero, Zero>>, F0_25) }

Material(name, index, alpha_mode, base, occlusion, emissive, profile) ==
    [name |-> name, index |-> index, alpha_mode |-> alpha_mode,
     base_color_texture
     |-> IF base = None THEN None ELSE Some([texture |-> base[1]]),
     base_color_factor |-> profile.base_color_factor,
     occlusion_texture
     |-> IF occlusion = None THEN None
         ELSE Some([texture |-> occlusion[1], strength |-> profile.strength]),
     emissive_texture
     |-> IF emissive = None THEN None ELSE Some([texture |-> emissive[1]]),
     emissive_factor |-> profile.emissive_factor]

Optional(S) == {None} \cup {Some(x) : x \in S}

NarrowTextures == {UriData(Ok(Raster(85))), UriData(Ok(Raster(255)))}

WideTextures == {UriData(Ok(Raster(p))) : p \in Bytes}

CompositorInput(base, occlusion, emissive, profile) ==
    [mat |-> Material(None, 0, "Opaque", base, occlusion, emissive, profile),
     lighten_factor |-> profile.lighten_factor]

(***************************************************************************)
(* The command line, the files it names, and the documents they hold.      *)
(***************************************************************************)
\* Most materials of a document.
MaxMaterials == 2

JsonNull == [json |-> "null"]

JsonString(str) == [json |-> "string", s |-> str]

JsonArray(items) == [json |-> "array", items |-> items]

\* Values of the positional [input] argument: none, a path that cannot be
\* opened, the root directory (it opens, and has no parent), a file that is
\* not JSON, a glTF file with an index out of range, and a valid glTF file.
InputArgs == {None, Some("missing.gltf"), Some("/"), Some("garbage.gltf"),
              Some("dangling.gltf"), Some("model.gltf")}

OutArgs == {None, Some("out")}

LightenArgs == {None, Some("abc"), Some("-0.5"), Some("1.5"), Some("1.0"),
                Some("NaN")}

\* str::parse::<f32>
ParseF32(str) ==
    CASE str = "0.0" -> Ok(Zero)
      [] str = "1.0" -> Ok(F1_0)
      [] str = "-0.5" -> Ok(F32(TRUE, 8388608, -24))
      [] str = "1.5" -> Ok(F32(FALSE, 12582912, -23))
      [] str = "NaN" -> Ok(NaN)
      [] OTHER -> Err(Msg("invalid float literal", <<>>))

\* File::open
FileOpens(path) == path # "missing.gltf"

\* Path::parent
Parent(path) == IF path = "/" THEN None ELSE Some("")

\* Gltf::from_reader(..)?.validate_minimally()? on a file that opened.
ReadsAsGltf(path) ==
    CASE path = "/" -> Err(Msg("io error", <<>>))
      [] path = "garbage.gltf" -> Err(Msg("json error", <<>>))
      [] path = "dangling.gltf" -> Err(Msg("validation error: index out of range", <<>>))
      [] OTHER -> Ok(path)

\* The two pictures the textures of a document decode to: one pixel, and
\* two pixels side by side.
Picture(w) == Image(w, 1, [i \in 1 .. w |-> Pixel((40 * i) % 256)])

Small == UriData(Ok(Picture(1)))

Wide == UriData(Ok(Picture(2)))

AlphaModes == {"Opaque", "Blend", "Mask"}

PipelineProfile == Profile(<<F1_0, F0_2, F0_75, F0_5>>, F0_8, <<F0_8, F1_0, F0_2>>, Zero)

\* The materials a document is made of, before their index is known.
\* Texture mixes of an unnamed opaque material: no reference at all, only a
\* buffer-view base color, only a base color raster, three rasters of which
\* the third or the second is of another size, no base color but an
\* occlusion raster, and an undecodable occlusion file beside an emissive
\* raster.  Then the names and alpha modes, on a base color raster.
MaterialBodies ==
    {Material(None, 0, "Opaque", None, None, None, PipelineProfile),
     Material(None, 0, "Opaque", Some(ViewData), None, None, PipelineProfile),
     Material(None, 0, "Opaque", Some(Small), None, None, PipelineProfile),
     Material(None, 0, "Opaque", Some(Small), Some(Small), Some(Wide), PipelineProfile),
     Material(None, 0, "Opaque", Some(Wide), Some(Small), Some(Wide), PipelineProfile),
     Material(None, 0, "Opaque", None, Some(Small), None, PipelineProfile),
     Material(None, 0, "Opaque", None, Some(UriData(Err(DecodeError))), Some(Wide),
              PipelineProfile),
     Material(None, 0, "Blend", Some(Small), None, None, PipelineProfile),
     Material(Some("wood"), 0, "Opaque", Some(Small), None, None, PipelineProfile),
     Material(Some("wood"), 0, "Mask", Some(Small), None, None, PipelineProfile)}

\* Gltf::materials(): the materials in document order, each with its index.
materials(bodies) == [i \in DOMAIN bodies |-> [bodies[i] EXCEPT !.index = i - 1]]

\* fn process_args, for the document the input file holds and the outcome
\* of fs::create_dir_all (which always succeeds on the empty path).
process_args(matches, gltf, created) ==
    IF matches.input = None THEN Err(Msg("A GLTF file must be provided.", <<>>))
    ELSE LET gltf_path == matches.input[1] IN
    IF ~FileOpens(gltf_path) THEN Err(Msg("io error: not found", <<>>))
    ELSE IF Parent(gltf_path) = None THEN Err(Msg("Invalid GLTF file path.", <<>>))
    ELSE IF ~ReadsAsGltf(gltf_path).ok THEN Err(ReadsAsGltf(gltf_path).err)
    ELSE LET gltf_dir == Parent(gltf_path)[1]
             out_dir == IF matches.out = None THEN gltf_dir ELSE matches.out[1]
             lighten == IF matches.lighten = None THEN "0.0" ELSE matches.lighten[1]
         IN
    IF ~ParseF32(lighten).ok THEN Err(ParseF32(lighten).err)
    ELSE LET lighten_factor == ParseF32(lighten).v IN
    IF F32LtZero(lighten_factor) \/ F32GtOne(lighten_factor)
    THEN Err(Msg("Lighten value must be between 0.0 and 1.0.", <<>>))
    ELSE IF out_dir # "" /\ ~created
    THEN Err(Msg("io error: cannot create directory", <<>>))
    ELSE Ok([gltf |-> gltf, gltf_dir |-> gltf_dir, out_dir |-> out_dir,
             lighten_factor |-> lighten_factor])

\* The closure that turns one material's Result into its JSON entry.
json_of(path) == IF path.ok THEN JsonString(path.v) ELSE JsonNull

\* A collection that would put each new entry in front.
collect_front(output, entry) == <<entry>> \o output

\* Iterator::collect::<Vec<_>>(), one element at a time.
collect(output, entry) == Append(output, entry)

(***************************************************************************)
(* State.                                                                  *)
(*   matches      the parsed command line                                  *)
(*   opts         Options, once process_args returned Ok                   *)
(*   output       the JSON entries collected so far                        *)
(*   writes       per material processed: "written", "failed" (img.save    *)
(*                returned Err) or "none" (no save was attempted)          *)
(*   files        paths of the textures written                            *)
(*   stdout, stderr, exit_status   what the process printed and returned   *)
(*   cin, cout    one call of generate_unlit and what it returned          *)
(***************************************************************************)
VARIABLES pc, matches, opts, output, writes, files, stdout, stderr,
          exit_status, cin, cout

main_vars == <<matches, opts, output, writes, files, stdout, stderr, exit_status>>

vars == <<pc, matches, opts, output, writes, files, stdout, stderr,
          exit_status, cin, cout>>

\* One call of generate_unlit on a material, outside of main's loop.
InitCompositor ==
    /\ pc = "generate_unlit"
    /\ cout = None
    /\ matches = None /\ opts = None /\ output = <<>> /\ writes = <<>>
    /\ files = {} /\ stdout = <<>> /\ stderr = <<>> /\ exit_status = None
    /\ \E profile \in Profiles :
         \* every mix of absent, broken and sample textures,
         \/ \E b, o, e \in Optional(Textures(ByteSamples)) :
              cin = CompositorInput(b, o, e, profile)
         \* and, for each channel in turn, every byte value in that channel
         \* beside a few settings of the other two
         \/ \E b \in Optional(WideTextures), o, e \in Optional(NarrowTextures) :
              cin = CompositorInput(b, o, e, profile)
         \/ \E o \in Optional(WideTextures), b, e \in Optional(NarrowTextures) :
              cin = CompositorInput(b, o, e, profile)
         \/ \E e \in Optional(WideTextures), b, o \in Optional(NarrowTextures) :
              cin = CompositorInput(b, o, e, profile)

Generate ==
    /\ pc = "generate_unlit"
    /\ \E lighten \in LightenCast(cin.lighten_factor) :
          cout' = Some(generate_unlit(cin.mat, lighten))
    /\ pc' = "returned"
    /\ UNCHANGED <<cin, main_vars>>

NextCompositor == Generate

SpecCompositor == InitCompositor /\ [][NextCompositor]_vars

(***************************************************************************)
(* fn main                                                                 *)
(***************************************************************************)
Init ==
    /\ pc = "process_args"
    /\ matches \in [input : InputArgs, out : OutArgs, lighten : LightenArgs]
    /\ opts = None /\ output = <<>> /\ writes = <<>>
    /\ files = {} /\ stdout = <<>> /\ stderr = <<>> /\ exit_status = None
    /\ cin = None /\ cout = None

\* match process_args(&matches) { Err(e) => ... }: whether process_args
\* returns Err does not depend on the materials of a document that reads.
ArgsRejected ==
    /\ pc = "process_args"
    /\ \E created \in BOOLEAN :
         LET r == process_args(matches, <<>>, created)
         IN  /\ ~r.ok
             /\ stderr' = Append(stderr, Msg("Error: {}", <<r.err>>))
             /\ stdout' = Append(stdout, JsonNull)
             /\ exit_status' = Some(1)
    /\ pc' = "exited"
    /\ UNCHANGED <<matches, opts, output, writes, files, cin, cout>>

\* match process_args(&matches) { Ok(opts) => ... }, for any document of at
\* most MaxMaterials materials that the input file may hold.
ArgsAccepted ==
    /\ pc = "process_args"
    /\ \E created \in BOOLEAN :
         /\ process_args(matches, <<>>, created).ok
         /\ \E n \in 0 .. MaxMaterials :
              \E bodies \in [1 .. n -> MaterialBodies] :
                opts' = Some(process_args(matches, materials(bodies), created).v)
    /\ pc' = "materials"
    /\ UNCHANGED <<matches, output, writes, files, stdout, stderr, exit_status,
                   cin, cout>>

\* One turn of the lazy iterator chain collect() drives: generate_unlit,
\* output_filename, img.save, and the JSON entry of the outcome.  The
\* raster goes to img.save and is not read again: whichever byte the
\* lighten cast yields, main sees only that generate_unlit returned Ok.
ProcessMaterial ==
    /\ pc = "materials"
    /\ Len(output) < Len(opts[1].gltf)
    /\ LET material == opts[1].gltf[Len(output) + 1]
           m == load_maps(material)
       IN
       \E saved \in BOOLEAN :
         LET filename == output_filename(material)
             path == Join(opts[1].out_dir, filename)
             r == IF ~m.valid.ok THEN Err(m.valid.err)
                  ELSE IF saved THEN Ok(path)
                  ELSE Err(Msg("io error: cannot write file", <<>>))
         IN  /\ unlit_generated(material, opts[1].lighten_factor) = m.valid.ok
             /\ output' = collect(output, json_of(r))
             /\ writes' = Append(writes, IF ~m.valid.ok THEN "none"
                                         ELSE IF saved THEN "written" ELSE "failed")
             /\ files' = IF r.ok THEN files \cup {path} ELSE files
             /\ stderr' = stderr \o m.stderr \o (IF r.ok THEN <<>> ELSE <<r.err>>)
    /\ UNCHANGED <<pc, matches, opts, stdout, exit_status, cin, cout>>

\* println!("{}", JsonValue::Array(..)); process::exit(0)
PrintResults ==
    /\ pc = "materials"
    /\ Len(output) = Len(opts[1].gltf)
    /\ stdout' = Append(stdout, JsonArray(output))
    /\ exit_status' = Some(0)
    /\ pc' = "exited"
    /\ UNCHANGED <<matches, opts, output, writes, files, stderr, cin, cout>>

Next == ArgsRejected \/ ArgsAccepted \/ ProcessMaterial \/ PrintResults

Spec == Init /\ [][Next]_vars

(***************************************************************************)
(* Properties of generate_unlit (checked under SpecCompositor).            *)
(***************************************************************************)
Min(a, b) == IF a < b THEN a ELSE b

Returned == pc = "returned"

\* The channel's texture reference is present and its file decodes.
Loaded(info) ==
    /\ info # None
    /\ info[1].texture.data = "Uri"
    /\ info[1].texture.open.ok

RasterOf(info) == info[1].texture.open.v

BaseLoaded == Loaded(cin.mat.base_color_texture)

OcclusionLoaded == Loaded(cin.mat.occlusion_texture)

EmissiveLoaded == Loaded(cin.mat.emissive_texture)

\* trunc(lighten * 255) for the lighten factor of the call.
LightenByte == Trunc(F32Mul(cin.lighten_factor, U8AsF32(255)))

\* trunc(p * factor) for a byte p and an f32 factor.
Scaled(p, factor) == Trunc(F32Mul(U8AsF32(p), factor))

\* The base layer the claims speak of: the tinted, lightened base color
\* raster, or the solid color trunc(f * 255) when there is none.
BaseLayerPixel(i) ==
    LET f == cin.mat.base_color_factor
    IN  IF BaseLoaded
        THEN LET p == RasterOf(cin.mat.base_color_texture).px[i]
             IN  <<Min(255, Scaled(p[1], f[1]) + LightenByte),
                   Min(255, Scaled(p[2], f[2]) + LightenByte),
                   Min(255, Scaled(p[3], f[3]) + LightenByte),
                   Scaled(p[4], f[4])>>
        ELSE <<Scaled(255, f[1]), Scaled(255, f[2]), Scaled(255, f[3]),
               Scaled(255, f[4])>>

\* trunc(b * ((o / 255) * s)), every operation an f32 operation, in the
\* order the formula is written.
ShadeNormalizeFirst(b, o, s) ==
    Trunc(F32Mul(U8AsF32(b), F32Mul(F32Div255(U8AsF32(o)), s)))

\* trunc(b * ((o / 255) * s)) in exact arithmetic, for 0 < s <= 1:
\* floor(b * o * m / 2^k / 255) with s = m * 2^(-k), the product b * o * m
\* taken in two 12-bit halves of m.
ShadeExact(b, o, s) ==
    IF s.m = 0 THEN 0
    ELSE LET t == b * o * (s.m \div 4096) + ((b * o * (s.m % 4096)) \div 4096)
         IN  (t \div (2 ^ ((0 - s.e) - 12))) \div 255

\* trunc(b * (o * (s / 255))): the strength is divided by 255 first, and
\* the occlusion byte multiplied in afterwards, each step rounded to f32.
ShadeStrengthFirst(b, o, s) ==
    Trunc(F32Mul(U8AsF32(b), F32Mul(U8AsF32(o), F32Div255(s))))

\* trunc(em * factor) per channel of emissive pixel i.
EmissivePixel(i) ==
    LET em == RasterOf(cin.mat.emissive_texture).px[i]
        ef == cin.mat.emissive_factor
    IN  <<Scaled(em[1], ef[1]), Scaled(em[2], ef[2]), Scaled(em[3], ef[3])>>

OcclusionByte(i) == RasterOf(cin.mat.occlusion_texture).px[i][1]

Strength == cin.mat.occlusion_texture[1].strength

Unlit == cout[1].result.v

SameShape(img, src) ==
    /\ dimensions(img) = dimensions(src)
    /\ Len(img.px) = Len(src.px)
    /\ Len(img.px) = img.w * img.h

Ones == <<F1_0, F1_0, F1_0, F1_0>>

\* C5: with only the base color raster loaded, generate_unlit returns a
\* raster of the same dimensions whose every pixel has
\* R,G,B = min(255, trunc(p_c * factor_c) + trunc(lighten * 255)) and
\* A = trunc(p_a * factor_3); with factor [1,1,1,1] and lighten 0 the
\* output is the decoded base color raster byte for byte.
C5_BaseOnly ==
    (Returned /\ BaseLoaded /\ ~OcclusionLoaded /\ ~EmissiveLoaded) =>
      LET src == RasterOf(cin.mat.base_color_texture)
          f == cin.mat.base_color_factor
      IN  /\ cout[1].result.ok
          /\ SameShape(Unlit, src)
          /\ \A i \in 1 .. Len(src.px) :
               /\ \A c \in 1 .. 3 :
                    Unlit.px[i][c]
                      = Min(255, Scaled(src.px[i][c], f[c]) + LightenByte)
               /\ Unlit.px[i][4] = Scaled(src.px[i][4], f[4])
          /\ (f = Ones /\ cin.lighten_factor = Zero) => Unlit = src

\* A base-only call where the lighten byte saturates a tinted channel.
C5_Witness ==
    /\ Returned /\ BaseLoaded /\ ~OcclusionLoaded /\ ~EmissiveLoaded
    /\ cin.mat.base_color_factor # Ones
    /\ LightenByte > 0
    /\ cout[1].result.ok
    /\ \E i \in 1 .. Len(Unlit.px) :
         LET p == RasterOf(cin.mat.base_color_texture).px[i]
         IN  /\ Scaled(p[1], cin.mat.base_color_factor[1]) + LightenByte > 255
             /\ Scaled(p[2], cin.mat.base_color_factor[2]) + LightenByte < 255
             /\ Unlit.px[i][1] = 255

OcclusionOnly == Returned /\ ~BaseLoaded /\ OcclusionLoaded /\ ~EmissiveLoaded

\* The rest of C6, with the occlusion multiply left to shade(b, o, s).
OcclusionOnlyIs(shade(_, _, _)) ==
    LET src == RasterOf(cin.mat.occlusion_texture)
        f == cin.mat.base_color_factor
    IN  /\ cout[1].result.ok
        /\ SameShape(Unlit, src)
        /\ \A i \in 1 .. Len(src.px) :
             /\ \A c \in 1 .. 3 :
                  Unlit.px[i][c] = shade(Scaled(255, f[c]), OcclusionByte(i), Strength)
             /\ Unlit.px[i][4] = Scaled(255, f[4])

\* C6 as stated: without a base color raster and with only the occlusion
\* raster loaded, R,G,B = trunc(trunc(f_c * 255) * ((o / 255) * s)) and
\* A = trunc(f_3 * 255).  The formula is read both as f32 arithmetic in the
\* written order and as exact arithmetic; it is taken to hold when either
\* reading gives the raster.
C6_AsStated ==
    OcclusionOnly =>
      (OcclusionOnlyIs(ShadeNormalizeFirst) \/ OcclusionOnlyIs(ShadeExact))

\* C6 amended: without a base color raster and with only the occlusion
\* raster loaded, the output has the occlusion raster's dimensions,
\* R,G,B = trunc(trunc(f_c * 255) * (o * (s / 255))) with every operation
\* rounded to f32 in that order, and A = trunc(f_3 * 255); the lighten
\* scalar is not added and no byte of the occlusion raster is copied.
C6_OcclusionOnly == OcclusionOnly => OcclusionOnlyIs(ShadeStrengthFirst)

\* An occlusion-only call on the inputs of the specification's example
\* shape (a factor channel at 0.5, strength 1.0) with a non-zero lighten
\* factor elsewhere: here one where lighten is set and the shade is partial.
C6_Witness ==
    /\ OcclusionOnly
    /\ cout[1].result.ok
    /\ LightenByte > 0
    /\ \E i \in 1 .. Len(Unlit.px) :
         /\ OcclusionByte(i) \notin {0, 255}
         /\ Unlit.px[i][1] > 0
         /\ Unlit.px[i][1] < Scaled(255, cin.mat.base_color_factor[1])
         /\ Unlit.px[i][1] # OcclusionByte(i)

\* What the compositor holds just before the emissive step.
BeforeEmissive ==
    LET base_map == MapRgba(LoadOption(cin.mat.base_color_texture).img)
        occlusion_map == MapRgb(LoadOption(cin.mat.occlusion_texture).img)
    IN  composite(cin.mat, base_map, occlusion_map, None,
                  Unlit.w, Unlit.h, LightenByte)

\* C7: the emissive step is a saturating add that leaves alpha alone: each
\* of R,G,B becomes min(255, b + e) for the working value b and the
\* contribution e = trunc(em_c * emissive_factor_c), never above 255 and
\* never below b, and A is unchanged.
C7_EmissiveSaturates ==
    (Returned /\ EmissiveLoaded /\ cout[1].result.ok) =>
      LET before == BeforeEmissive
      IN  \A i \in 1 .. Len(Unlit.px) :
            LET b == before.px[i]
                e == EmissivePixel(i)
            IN  /\ \A c \in 1 .. 3 :
                     /\ Unlit.px[i][c] = Min(255, b[c] + e[c])
                     /\ Unlit.px[i][c] >= b[c]
                     /\ Unlit.px[i][c] <= 255
                /\ Unlit.px[i][4] = b[4]

\* An emissive add that saturates one channel and not another.
C7_Witness ==
    /\ Returned /\ EmissiveLoaded /\ cout[1].result.ok
    /\ \E i \in 1 .. Len(Unlit.px) :
         LET b == BeforeEmissive.px[i]
             e == EmissivePixel(i)
         IN  /\ b[1] + e[1] > 255 /\ b[1] < 255 /\ Unlit.px[i][1] = 255
             /\ b[2] + e[2] < 255 /\ e[2] > 0
             /\ Unlit.px[i][4] < 255

AllSteps == Returned /\ OcclusionLoaded /\ EmissiveLoaded /\ cout[1].result.ok

\* The rest of C9, with the occlusion multiply left to shade(b, o, s).
AllStepsAre(shade(_, _, _)) ==
    \A i \in 1 .. Len(Unlit.px) :
      LET b == BaseLayerPixel(i)
          e == EmissivePixel(i)
      IN  /\ \A c \in 1 .. 3 :
               Unlit.px[i][c]
                 = Min(255, shade(b[c], OcclusionByte(i), Strength) + e[c])
          /\ Unlit.px[i][4] = b[4]

\* C9 as stated: with occlusion and emissive both loaded, every pixel has
\* R,G,B = min(255, trunc(B_c * ((o / 255) * s)) + trunc(em_c * ef_c)) for
\* the base layer B, and A = B's A (the formula read as for C6).
C9_AsStated ==
    AllSteps => (AllStepsAre(ShadeNormalizeFirst) \/ AllStepsAre(ShadeExact))

\* C9 amended: the steps run base layer, occlusion multiply, emissive add,
\* each at most once: every pixel has
\* R,G,B = min(255, trunc(B_c * (o * (s / 255))) + trunc(em_c * ef_c)),
\* every operation rounded to f32 in that order, and A = B's A; the
\* emissive contribution is never attenuated by occlusion.
C9_StepOrder == AllSteps => AllStepsAre(ShadeStrengthFirst)

\* All three steps ran, and adding the emissive contribution before the
\* occlusion multiply would have given another pixel.
C9_Witness ==
    /\ AllSteps /\ BaseLoaded
    /\ \E i \in 1 .. Len(Unlit.px) :
         LET b == BaseLayerPixel(i)
             e == EmissivePixel(i)
         IN  /\ e[1] > 0 /\ b[1] > 0
             /\ OcclusionByte(i) \notin {0, 255}
             /\ Unlit.px[i][1] < 255
             /\ Unlit.px[i][1]
                  # ShadeStrengthFirst(Min(255, b[1] + e[1]), OcclusionByte(i), Strength)

\* A texture reference that load_if_exists turns into None with a warning.
Broken(info) == info # None /\ ~Loaded(info)

\* The material with its broken references left out.
Omit(info) == IF Loaded(info) THEN info ELSE None

WithoutBroken(mat) ==
    [mat EXCEPT !.base_color_texture = Omit(@),
                !.occlusion_texture = Omit(@),
                !.emissive_texture = Omit(@)]

BrokenCount(mat) ==
    Cardinality({k \in {"base_color_texture", "occlusion_texture", "emissive_texture"} :
                   Broken(mat[k])})

\* C10: a channel whose texture is a buffer-view image or a file that fails
\* to decode is treated like an absent channel: one warning each on stderr,
\* no abort, and generate_unlit returns what it returns for the same
\* material with those references omitted, so it succeeds whenever another
\* channel loads (the loaded rasters agreeing in dimensions).
C10_BrokenIsAbsent ==
    (Returned /\ BrokenCount(cin.mat) > 0) =>
      /\ cout[1].result = generate_unlit(WithoutBroken(cin.mat), LightenByte).result
      /\ Len(cout[1].stderr) = BrokenCount(cin.mat)
      /\ generate_unlit(WithoutBroken(cin.mat), LightenByte).stderr = <<>>
      /\ (BaseLoaded \/ OcclusionLoaded \/ EmissiveLoaded) => cout[1].result.ok

\* A call with one buffer-view reference and one undecodable file that
\* still composites the remaining channel.
C10_Witness ==
    /\ Returned
    /\ BrokenCount(cin.mat) = 2
    /\ cin.mat.base_color_texture # None
    /\ cin.mat.base_color_texture[1].texture.data = "View"
    /\ OcclusionLoaded
    /\ cout[1].result.ok
    /\ Len(cout[1].stderr) = 2

(***************************************************************************)
(* Properties of main (checked under Spec).                                *)
(***************************************************************************)
Accepted == opts # None

Exited == pc = "exited"

Gltf == opts[1].gltf

Processed == 1 .. Len(output)

Range(s) == {s[i] : i \in DOMAIN s}

\* Dimensions of the rasters that load for a material, in channel order.
LoadedDims(mat) ==
    LET dims_of(info) == IF Loaded(info) THEN <<dimensions(RasterOf(info))>> ELSE <<>>
    IN  dims_of(mat.base_color_texture) \o dims_of(mat.occlusion_texture)
          \o dims_of(mat.emissive_texture)

\* Two of the loaded rasters differ in (width, height).
Mismatched(mat) == Cardinality(Range(LoadedDims(mat))) > 1

\* None of the three channel rasters is loaded.
Empty(mat) == LoadedDims(mat) = <<>>

Generated(i) == unlit_generated(Gltf[i], opts[1].lighten_factor)

ReportedPath(i) == Join(opts[1].out_dir, output_filename(Gltf[i]))

\* The entry of material i as its own textures and its own save decide it.
EntryOf(i) ==
    IF ~Mismatched(Gltf[i]) /\ ~Empty(Gltf[i]) /\ writes[i] = "written"
    THEN JsonString(ReportedPath(i))
    ELSE JsonNull

\* C1: for every accepted document the printed array has one entry per
\* material, in document order: entry i is the written path when material
\* i was generated and saved, and null when it failed in generation or in
\* saving, whatever the mix of successes and failures.
C1_EntryPerMaterial ==
    Accepted =>
      /\ Len(output) <= Len(Gltf)
      /\ Len(writes) = Len(output)
      /\ \A i \in Processed :
           LET generated == Generated(i)
           IN  /\ generated <=> writes[i] # "none"
               /\ (generated /\ writes[i] = "written")
                    => (output[i] = JsonString(ReportedPath(i))
                        /\ ReportedPath(i) \in files)
               /\ (~generated \/ writes[i] = "failed") => output[i] = JsonNull
      /\ Exited => (Len(output) = Len(Gltf) /\ stdout = <<JsonArray(output)>>)

\* A run that printed [null, path]: the first material failed to generate,
\* the second was written.
C1_Witness ==
    /\ Exited /\ Accepted
    /\ Len(Gltf) = 2
    /\ writes = <<"none", "written">>
    /\ output = <<JsonNull, JsonString(ReportedPath(2))>>
    /\ stdout = <<JsonArray(output)>>
    /\ exit_status = Some(0)

MismatchLines ==
    {stderr[k] : k \in {n \in DOMAIN stderr :
                          stderr[n].text = "Input map has inconsistent dimensions: {:?}"}}

\* The diagnostic line shows dimension d.
Names(line, d) == \E a \in DOMAIN line.args : line.args[a] = d

\* The first loaded dimension, in channel order, that differs from the one
\* loaded before it.
Offending(mat) ==
    LET dims == LoadedDims(mat)
        k == CHOOSE n \in 2 .. Len(dims) :
               /\ dims[n] # dims[n - 1]
               /\ \A q \in 2 .. (n - 1) : dims[q] = dims[q - 1]
    IN  dims[k]

\* The parts of C2 that do not concern the wording of the diagnostic: the
\* material fails, nothing is written for it, its entry is null, and the
\* other entries are what their own material decides.
MismatchFails(i) ==
    /\ ~Generated(i)
    /\ writes[i] = "none"
    /\ output[i] = JsonNull
    /\ \A j \in Processed \ {i} : output[j] = EntryOf(j)

\* C2 as stated: when two rasters loaded for a material differ in
\* dimensions the material fails, no texture is written, its entry is
\* null, the other entries are unaffected, and the diagnostic identifies
\* both of the differing dimensions.
C2_AsStated ==
    Accepted =>
      \A i \in Processed :
        Mismatched(Gltf[i]) =>
          /\ MismatchFails(i)
          /\ \E line \in MismatchLines :
               \E d1, d2 \in Range(LoadedDims(Gltf[i])) :
                 d1 # d2 /\ Names(line, d1) /\ Names(line, d2)

\* C2 amended: as stated, except that the diagnostic shows one dimension
\* only: that of the first loaded raster, in the order base color,
\* occlusion, emissive, that differs from the raster loaded before it.
C2_MismatchFails ==
    Accepted =>
      /\ \A line \in MismatchLines : Len(line.args) = 1
      /\ \A i \in Processed :
           Mismatched(Gltf[i]) =>
             /\ MismatchFails(i)
             /\ \E line \in MismatchLines : line.args = <<Offending(Gltf[i])>>

\* A run whose first material has three loaded rasters, the third of
\* another size, and whose second material was written.
C2_Witness ==
    /\ Exited /\ Accepted
    /\ Len(Gltf) = 2
    /\ Len(LoadedDims(Gltf[1])) = 3
    /\ Offending(Gltf[1]) = LoadedDims(Gltf[1])[3]
    /\ output[1] = JsonNull
    /\ writes = <<"none", "written">>
    /\ MismatchLines # {}

\* C3 as stated: a material for which no channel raster is loaded still
\* gets the uniform fallback raster of the base color factor, and its
\* entry is not null on that account.
C3_AsStated ==
    Accepted =>
      \A i \in Processed :
        Empty(Gltf[i]) =>
          /\ Generated(i)
          /\ writes[i] # "none"
          /\ writes[i] = "written" => output[i] # JsonNull

NoMapsLine == Msg("No input maps were provided.", <<>>)

\* C3 amended: a material for which no channel raster is loaded fails with
\* "No input maps were provided.": nothing is written and its entry is
\* null.  The uniform fallback of the base color factor is generated only
\* when the base color raster is not loaded and an occlusion or emissive
\* raster gives the dimensions.
C3_EmptyFails ==
    Accepted =>
      \A i \in Processed :
        /\ Empty(Gltf[i]) =>
             /\ ~Generated(i)
             /\ writes[i] = "none"
             /\ output[i] = JsonNull
             /\ NoMapsLine \in Range(stderr)
        /\ (~Loaded(Gltf[i].base_color_texture) /\ ~Empty(Gltf[i])
              /\ ~Mismatched(Gltf[i])) =>
             /\ Generated(i)
             /\ writes[i] # "none"
             /\ writes[i] = "written" => output[i] # JsonNull

\* A run whose first material has only a buffer-view base color texture
\* (entry null) and whose second has no base color raster but an occlusion
\* raster (written).
C3_Witness ==
    /\ Exited /\ Accepted
    /\ Len(Gltf) = 2
    /\ Empty(Gltf[1]) /\ Gltf[1].base_color_texture # None
    /\ output[1] = JsonNull
    /\ NoMapsLine \in Range(stderr)
    /\ ~Loaded(Gltf[2].base_color_texture) /\ Loaded(Gltf[2].occlusion_texture)
    /\ writes[2] = "written"

\* The lighten scalar of the run: the argument, or its default.
LightenText == IF matches.lighten = None THEN "0.0" ELSE matches.lighten[1]

\* A number x with 0 <= x <= 1.
InUnitInterval(x) == ~x.nan /\ ~F32LtZero(x) /\ ~F32GtOne(x)

InputUnusable ==
    IF matches.input = None THEN TRUE
    ELSE ~FileOpens(matches.input[1]) \/ ~ReadsAsGltf(matches.input[1]).ok

LightenOutside ==
    ParseF32(LightenText).ok /\ ~InUnitInterval(ParseF32(LightenText).v)

\* C4, as stated for fatal errors: a run whose input cannot be opened or
\* read as a valid glTF document, or whose lighten scalar is outside
\* [0, 1], ends with a non-zero exit status and a single null on standard
\* output, before any material is processed or any texture written.
C4_FatalEndsRun ==
    (Exited /\ (InputUnusable \/ LightenOutside)) =>
      /\ exit_status # None
      /\ exit_status # Some(0)
      /\ stdout = <<JsonNull>>
      /\ output = <<>>
      /\ files = {}

\* jpg exactly for Opaque, png for Blend and Mask.
ExtensionFor(alpha_mode) ==
    CASE alpha_mode = "Opaque" -> "jpg"
      [] alpha_mode \in {"Blend", "Mask"} -> "png"

Stem(mat) ==
    IF mat.name # None THEN mat.name[1] \o "_unlit"
    ELSE "unlit_" \o ToString(mat.index)

\* C8: output_filename gives "<name>_unlit.<ext>" for a named material and
\* "unlit_<index>.<ext>" otherwise, <ext> being jpg exactly for Opaque and
\* png for Blend and Mask; changing only the alpha mode keeps the stem; and
\* the reported path is that file name joined to the output directory.
C8_OutputFilename ==
    Accepted =>
      \A i \in Processed :
        /\ \A a \in AlphaModes :
             output_filename([Gltf[i] EXCEPT !.alpha_mode = a])
               = Stem(Gltf[i]) \o "." \o ExtensionFor(a)
        /\ writes[i] = "written" =>
             output[i] = JsonString(
               IF opts[1].out_dir = "" THEN output_filename(Gltf[i])
               ELSE opts[1].out_dir \o "/" \o output_filename(Gltf[i]))

\* A run on two materials that differ in alpha mode only, Opaque and Mask.
C8_Witness ==
    /\ Exited /\ Accepted
    /\ output = <<JsonString("out/wood_unlit.jpg"), JsonString("out/wood_unlit.png")>>
    /\ Gltf[1].alpha_mode = "Opaque" /\ Gltf[2].alpha_mode = "Mask"
    /\ [Gltf[2] EXCEPT !.alpha_mode = "Opaque", !.index = 0] = Gltf[1]

====
